---- MODULE Spec2Model ----
(***************************************************************************)
(* Model of phelia's component catalogue (src/core/components.tsx): every  *)
(* component's toSlackElement conversion rule, driven by the reconciler    *)
(* that walks a tree of elements, calls each rule with a reconcile         *)
(* callback and the root's promises array, and appends resolved children.  *)
(*                                                                         *)
(* JavaScript values are modelled as records: an element is a record with  *)
(* a "kind" and its props, a resolved instance is the record the rule      *)
(* builds. A function-valued marker (isConfirm, isOption, isOptionGroup)   *)
(* is a field that is present; isSelected is the field "isSelected"        *)
(* holding the value its closure returns.                                  *)
(***************************************************************************)
EXTENDS Integers, Sequences, FiniteSets, TLC

VARIABLES node, pc, rule, result, promises, registry

vars == <<node, pc, rule, result, promises, registry>>

(***************************************************************************)
(* Bounds of the model.                                                    *)
(***************************************************************************)
MaxPending == 1
MaxOptions == 2
MaxGroups == 2
MaxButtons == 2

(***************************************************************************)
(* JavaScript values.                                                      *)
(***************************************************************************)
\* undefined in a slot that holds a string, a number or a boolean
Undefined == "undefined"

\* undefined in a slot that holds an element or an object
NoValue == [undefined |-> TRUE]

\* instance[f], undefined when the instance has no such field
Get(instance, f) == IF f \in DOMAIN instance THEN instance[f] ELSE NoValue

\* JavaScript truthiness of an optional boolean
Truthy(b) == b = "true"

\* instance[f] for an array field, empty when the instance has no such field
Items(instance, f) == IF f \in DOMAIN instance THEN instance[f] ELSE <<>>

\* { ...option, url: undefined }
ClearUrl(option) == [f \in DOMAIN option \cup {"url"} |->
                        IF f = "url" THEN Undefined ELSE option[f]]

RECURSIVE Concat(_)
\* [...a, ...b, ...c] for a sequence of arrays
Concat(lists) == IF lists = <<>> THEN <<>> ELSE Head(lists) \o Concat(Tail(lists))

(***************************************************************************)
(* Outcome of a rule or of a reconcile call: the value returned with the   *)
(* promises array, or the exception thrown. "calls" logs the promises      *)
(* returned by each reconcile call the rule made, in call order.           *)
(***************************************************************************)
Returned(instance, collected, calls) ==
    [ok |-> TRUE, value |-> instance, promises |-> collected, calls |-> calls]

Thrown(error) == [ok |-> FALSE, error |-> error]

RECURSIVE Reverse(_)
Reverse(lists) == IF lists = <<>> THEN <<>> ELSE Reverse(Tail(lists)) \o <<Head(lists)>>

\* a mutation of Push: the arrays are pushed last first
PushLastFirst(collected, lists) == collected \o Concat(Reverse(lists))

\* a mutation of Push: only the first array is pushed
PushFirstOnly(collected, lists) ==
    collected \o (IF lists = <<>> THEN <<>> ELSE Head(lists))

\* promises.push(...a, ...b)
Push(collected, lists) == collected \o Concat(lists)

(***************************************************************************)
(* Elements (the input trees).                                             *)
(***************************************************************************)
\* a bare string child or prop
Str(s) == [kind |-> "string", text |-> s]

\* the pending resolutions the reconciler discovers at one element
Pending(tag, n) == [i \in 1..n |-> <<tag, i>>]

\* the props every element carries in the model
Element(kind) == [kind |-> kind, children |-> <<>>, pending |-> <<>>]

\* record r with field f set to v (instance.f = v)
SetField(r, f, v) == [g \in DOMAIN r \cup {f} |-> IF g = f THEN v ELSE r[g]]

\* the first outcome, in call order, that is an exception
Failed(results) == \E i \in DOMAIN results : ~results[i].ok

FirstFailure(results) ==
    results[CHOOSE i \in DOMAIN results :
                ~results[i].ok /\ \A j \in 1..(i - 1) : results[j].ok]

(***************************************************************************)
(* The reconciler's entry points, defined after the rules that call them.  *)
(***************************************************************************)
RECURSIVE ConvertTree(_, _)

\* the reconcile callback a rule receives: a nested pass with its own root,
\* returning [value, promises]
Reconcile(element) == ConvertTree(element, <<>>)

(***************************************************************************)
(* Coercion and selection helpers shared by the rules.                     *)
(***************************************************************************)
\* a mutation of PlainText: only an implicit text leaf is coerced
PlainTextOnlyLeaf(value) ==
    IF value # NoValue /\ "type" \in DOMAIN value /\ value.type = "text"
    THEN SetField(value, "type", "plain_text") ELSE value

\* if (instance.x) { instance.x.type = "plain_text"; }
PlainText(value) ==
    IF value # NoValue THEN SetField(value, "type", "plain_text") ELSE value

\* a mutation of SectionText: every resolved text is coerced
SectionTextAlways(text) ==
    IF text # NoValue THEN SetField(text, "type", "plain_text") ELSE text

\* if (instance.text && text.type === "text") { instance.text.type = "plain_text"; }
SectionText(text) ==
    IF text # NoValue /\ "type" \in DOMAIN text /\ text.type = "text"
    THEN SetField(text, "type", "plain_text") ELSE text

RECURSIVE FindLastSelected(_)
\* a mutation of FindSelected: the last selected option wins
FindLastSelected(options) ==
    IF options = <<>> THEN [ok |-> TRUE, value |-> NoValue]
    ELSE LET option == ClearUrl(options[Len(options)])
         IN IF "isSelected" \notin DOMAIN option THEN Thrown("TypeError")
            ELSE IF Truthy(option.isSelected) THEN [ok |-> TRUE, value |-> option]
            ELSE FindLastSelected(SubSeq(options, 1, Len(options) - 1))

RECURSIVE FindSelected(_)
\* options.map(option => ({...option, url: undefined})).find(option => option.isSelected())
\* find calls isSelected on each element up to the first match; calling it on
\* an element without one throws
FindSelected(options) ==
    IF options = <<>> THEN [ok |-> TRUE, value |-> NoValue]
    ELSE LET option == ClearUrl(Head(options))
         IN IF "isSelected" \notin DOMAIN option THEN Thrown("TypeError")
            ELSE IF Truthy(option.isSelected) THEN [ok |-> TRUE, value |-> option]
            ELSE FindSelected(Tail(options))

RECURSIVE MapClearUrl(_)
MapClearUrl(options) ==
    IF options = <<>> THEN <<>>
    ELSE <<ClearUrl(Head(options))>> \o MapClearUrl(Tail(options))

\* a mutation of SelectedOptions: the url of a selected option is kept
SelectedOptionsKeepUrl(options) ==
    IF \E i \in DOMAIN options : "isSelected" \notin DOMAIN options[i]
    THEN Thrown("TypeError")
    ELSE [ok |-> TRUE,
          value |-> SelectSeq(options, LAMBDA option : Truthy(option.isSelected))]

\* options.map(option => ({...option, url: undefined})).filter(option => option.isSelected())
\* filter calls isSelected on every element
SelectedOptions(options) ==
    IF \E i \in DOMAIN options : "isSelected" \notin DOMAIN options[i]
    THEN Thrown("TypeError")
    ELSE [ok |-> TRUE,
          value |-> SelectSeq(MapClearUrl(options),
                              LAMBDA option : Truthy(option.isSelected))]

RECURSIVE ConcatOptions(_)
\* optionsOrGroups.reduce((options, group) => { options.push(...group.options); ... }, [])
ConcatOptions(groups) ==
    IF groups = <<>> THEN <<>>
    ELSE Head(groups).options \o ConcatOptions(Tail(groups))

\* a mutation of Flatten: only the first group's options are taken
FlattenFirstGroup(optionsOrGroups) ==
    IF "isOptionGroup" \in DOMAIN optionsOrGroups[1]
    THEN IF \E i \in DOMAIN optionsOrGroups : "options" \notin DOMAIN optionsOrGroups[i]
         THEN Thrown("TypeError")
         ELSE [ok |-> TRUE, value |-> optionsOrGroups[1].options]
    ELSE [ok |-> TRUE, value |-> optionsOrGroups]

\* const isGroup = Boolean(optionsOrGroups[0].isOptionGroup); let options = ...
\* spreading the missing options of an element that is no group throws
Flatten(optionsOrGroups) ==
    IF "isOptionGroup" \in DOMAIN optionsOrGroups[1]
    THEN IF \E i \in DOMAIN optionsOrGroups : "options" \notin DOMAIN optionsOrGroups[i]
         THEN Thrown("TypeError")
         ELSE [ok |-> TRUE, value |-> ConcatOptions(optionsOrGroups)]
    ELSE [ok |-> TRUE, value |-> optionsOrGroups]

(***************************************************************************)
(* The conversion rules (toSlackElement), in source order. A rule takes    *)
(* the element's props, the outcome of each reconcile call it makes (named *)
(* as the rule names it, in call order) and the contents of the root's     *)
(* promises array, and returns the instance with the array as the rule     *)
(* leaves it.                                                              *)
(***************************************************************************)
\* Text.defaultProps
TextDefaultProps(props) ==
    IF props.type = Undefined THEN [props EXCEPT !.type = "plain_text"] ELSE props

\* a mutation of Text: verbatim and emoji are copied whatever the type
TextCarriesBoth(props) ==
    [type |-> props.type, text |-> "", verbatim |-> props.verbatim,
     emoji |-> props.emoji]

Text(props) ==
    IF props.type = "mrkdwn"
    THEN [type |-> props.type, text |-> "", verbatim |-> props.verbatim]
    ELSE IF props.type = "plain_text"
    THEN [type |-> props.type, text |-> "", emoji |-> props.emoji]
    ELSE [type |-> props.type, text |-> ""]

\* a mutation of Button: a Button without action or children is rejected
ButtonRequired(props, confirm, collected) ==
    IF props.action = Undefined \/ props.children = <<>> THEN Thrown("ShapeError")
    ELSE IF ~confirm.ok THEN confirm
    ELSE Returned([type |-> "button", action_id |-> props.action,
                   style |-> props.style, url |-> props.url,
                   text |-> [type |-> "plain_text", text |-> "",
                             emoji |-> props.emoji],
                   confirm |-> confirm.value],
                  Push(collected, <<confirm.promises>>),
                  <<confirm.promises>>)

Button(props, confirm, collected) ==
    IF ~confirm.ok THEN confirm
    ELSE Returned([type |-> "button", action_id |-> props.action,
                   style |-> props.style, url |-> props.url,
                   text |-> [type |-> "plain_text", text |-> "",
                             emoji |-> props.emoji],
                   confirm |-> confirm.value],
                  Push(collected, <<confirm.promises>>),
                  <<confirm.promises>>)

Section(props, accessory, text, collected) ==
       IF Failed(<<accessory, text>>) THEN FirstFailure(<<accessory, text>>)
       ELSE Returned([type |-> "section", text |-> SectionText(text.value),
                      accessory |-> accessory.value],
                     Push(collected, <<accessory.promises, text.promises>>),
                     <<accessory.promises, text.promises>>)

Actions(props) == [type |-> "actions", elements |-> <<>>]

Image(props) == [type |-> "image", image_url |-> props.imageUrl, alt_text |-> props.alt]

ImageBlock(props) ==
    IF props.title # Undefined /\ props.title # ""
    THEN [type |-> "image", image_url |-> props.imageUrl, alt_text |-> props.alt,
          title |-> [type |-> "plain_text", text |-> props.title,
                     emoji |-> props.emoji]]
    ELSE [type |-> "image", image_url |-> props.imageUrl, alt_text |-> props.alt]

Divider == [type |-> "divider"]

Context(props) == [type |-> "context", elements |-> <<>>]

\* instance.title.type = "plain_text" and the two like it are unguarded:
\* assigning to a field of undefined throws
Confirm(props, title, confirm, deny, collected) ==
       IF Failed(<<title, confirm, deny>>) THEN FirstFailure(<<title, confirm, deny>>)
       ELSE IF NoValue \in {title.value, confirm.value, deny.value}
       THEN Thrown("TypeError")
       ELSE Returned([isConfirm |-> TRUE, style |-> props.style,
                      title |-> SetField(title.value, "type", "plain_text"),
                      confirm |-> SetField(confirm.value, "type", "plain_text"),
                      deny |-> SetField(deny.value, "type", "plain_text")],
                     Push(collected, <<title.promises, confirm.promises, deny.promises>>),
                     <<title.promises, confirm.promises, deny.promises>>)

Option(props, description, collected) ==
    IF ~description.ok THEN description
    ELSE Returned([isSelected |-> props.selected, isOption |-> TRUE,
                   value |-> props.value, url |-> props.url,
                   description |-> PlainText(description.value)],
                  Push(collected, <<description.promises>>),
                  <<description.promises>>)

DatePicker(props, placeholder, confirm, collected) ==
       IF Failed(<<placeholder, confirm>>) THEN FirstFailure(<<placeholder, confirm>>)
       ELSE Returned([type |-> "datepicker", initial_date |-> props.initialDate,
                      action_id |-> props.action,
                      placeholder |-> PlainText(placeholder.value),
                      confirm |-> confirm.value],
                     Push(collected, <<placeholder.promises, confirm.promises>>),
                     <<placeholder.promises, confirm.promises>>)

Message(props) == [blocks |-> <<>>, text |-> props.text]

Modal(props, title, submit, close, collected) ==
       IF Failed(<<title, submit, close>>) THEN FirstFailure(<<title, submit, close>>)
       ELSE Returned([type |-> "modal", blocks |-> <<>>,
                      title |-> PlainText(title.value),
                      submit |-> PlainText(submit.value),
                      close |-> PlainText(close.value)],
                     Push(collected, <<title.promises, submit.promises, close.promises>>),
                     <<title.promises, submit.promises, close.promises>>)

Input(props, hint, label, collected) ==
       IF Failed(<<hint, label>>) THEN FirstFailure(<<hint, label>>)
       ELSE Returned([type |-> "input", optional |-> props.optional,
                      hint |-> PlainText(hint.value),
                      label |-> PlainText(label.value)],
                     Push(collected, <<hint.promises, label.promises>>),
                     <<hint.promises, label.promises>>)

TextField(props, placeholder, collected) ==
       IF ~placeholder.ok THEN placeholder
       ELSE Returned([type |-> "plain_text_input", initial_value |-> props.initialValue,
                      action_id |-> props.action, max_length |-> props.maxLength,
                      min_length |-> props.minLength, multiline |-> props.multiline,
                      placeholder |-> PlainText(placeholder.value)],
                     Push(collected, <<placeholder.promises>>),
                     <<placeholder.promises>>)

\* React.createElement(Section, { children: props.children })
SectionOf(children) ==
    [Element("section") EXCEPT !.children = children]
      @@ [accessory |-> NoValue, text |-> NoValue]

Checkboxes(props, options, confirm, collected) ==
    LET instance == [type |-> "checkboxes", action_id |-> props.action,
                     options |-> <<>>]
    IN IF Failed(<<options, confirm>>) THEN FirstFailure(<<options, confirm>>)
       ELSE LET selectedOptions ==
                    IF "fields" \in DOMAIN options.value
                    THEN SelectedOptions(options.value.fields)
                    ELSE [ok |-> TRUE, value |-> <<>>]
            IN IF ~selectedOptions.ok THEN selectedOptions
               ELSE Returned(
                      (IF selectedOptions.value # <<>>
                       THEN SetField(instance, "initial_options", selectedOptions.value)
                       ELSE instance) @@ [confirm |-> confirm.value],
                      Push(collected, <<options.promises, confirm.promises>>),
                      <<options.promises, confirm.promises>>)

OverflowMenu(props, confirm, collected) ==
       IF ~confirm.ok THEN confirm
       ELSE Returned([type |-> "overflow", action_id |-> props.action,
                      options |-> <<>>, confirm |-> confirm.value],
                     Push(collected, <<confirm.promises>>),
                     <<confirm.promises>>)

RadioButtons(props, options, confirm, collected) ==
    LET instance == [type |-> "radio_buttons", action_id |-> props.action,
                     options |-> <<>>]
    IN IF Failed(<<options, confirm>>) THEN FirstFailure(<<options, confirm>>)
       ELSE LET selectedOption ==
                    IF "fields" \in DOMAIN options.value
                    THEN FindSelected(options.value.fields)
                    ELSE [ok |-> TRUE, value |-> NoValue]
            IN IF ~selectedOption.ok THEN selectedOption
               ELSE Returned(
                      (IF "fields" \in DOMAIN options.value
                       THEN SetField(instance, "initial_option", selectedOption.value)
                       ELSE instance) @@ [confirm |-> confirm.value],
                      Push(collected, <<options.promises, confirm.promises>>),
                      <<options.promises, confirm.promises>>)

OptionGroup(props, label, collected) ==
       IF ~label.ok THEN label
       ELSE Returned([isOptionGroup |-> TRUE, options |-> <<>>,
                      label |-> PlainText(label.value)],
                     Push(collected, <<label.promises>>),
                     <<label.promises>>)

\* SelectMenu.defaultProps, MultiSelectMenu.defaultProps
SelectMenuDefaultProps(props) ==
    IF props.type = Undefined THEN [props EXCEPT !.type = "static"] ELSE props

\* instance.filter = {}; instance.filter.include = props.filter.include; ...
Filter(filter) ==
    [include |-> filter.include,
     exclude_external_shared_channels |-> filter.excludeExternalSharedChannels,
     exclude_bot_users |-> filter.excludeBotUsers]

\* a mutation of InitialOption: the resolved option is used as it is
InitialOptionAsIs(instance, initialOption) ==
    IF initialOption # NoValue
    THEN SetField(instance, "initial_option", initialOption)
    ELSE instance

\* if (initialOption) { instance.initial_option = { ...initialOption, url: undefined }; }
InitialOption(instance, initialOption) ==
    IF initialOption # NoValue
    THEN SetField(instance, "initial_option", ClearUrl(initialOption))
    ELSE instance

\* the fields the rule sets for the menu's type, after the static selection
SelectMenuVariant(instance, props, initialOption) ==
    LET external == IF props.type = "external"
                    THEN InitialOption(instance, initialOption)
                           @@ [min_query_length |-> props.minQueryLength]
                    ELSE instance
        users == IF props.type = "users"
                 THEN SetField(external, "initial_user", props.initialUser)
                 ELSE external
        channels == IF props.type = "channels"
                    THEN SetField(users, "initial_channel", props.initialChannel)
                    ELSE users
        conversations ==
            IF props.type = "conversations"
            THEN LET c == SetField(channels, "initial_conversation",
                                   props.initialConversation)
                 IN IF props.filter # NoValue
                    THEN SetField(c, "filter", Filter(props.filter)) ELSE c
            ELSE channels
    IN conversations

SelectMenu(props, confirm, placeholder, optionsOrGroups, initialOption, collected) ==
    LET calls == <<confirm, placeholder, optionsOrGroups, initialOption>>
        instance == [type |-> props.type \o "_select", action_id |-> props.action,
                     onSearchOptions |-> props.onSearchOptions]
    IN IF Failed(calls) THEN FirstFailure(calls)
       ELSE LET static == props.type = "static"
                            /\ "fields" \in DOMAIN optionsOrGroups.value
                            /\ optionsOrGroups.value.fields # <<>>
                options == IF static THEN Flatten(optionsOrGroups.value.fields)
                           ELSE [ok |-> TRUE, value |-> <<>>]
                selectedOption == IF options.ok THEN FindSelected(options.value)
                                  ELSE options
            IN IF ~selectedOption.ok THEN selectedOption
               ELSE Returned(
                      SelectMenuVariant(
                          IF static
                          THEN SetField(instance, "initial_option", selectedOption.value)
                          ELSE instance,
                          props, initialOption.value)
                        @@ [confirm |-> confirm.value,
                            placeholder |-> PlainText(placeholder.value)],
                      Push(collected, <<confirm.promises, placeholder.promises,
                                        optionsOrGroups.promises, initialOption.promises>>),
                      <<confirm.promises, placeholder.promises,
                        optionsOrGroups.promises, initialOption.promises>>)

\* the fields the rule sets for the multi menu's type, after the static selection
MultiSelectMenuVariant(instance, props, initialOptions) ==
    LET external ==
            IF props.type = "external"
            THEN (IF "fields" \in DOMAIN initialOptions
                  THEN SetField(instance, "initial_options", initialOptions.fields)
                  ELSE instance) @@ [min_query_length |-> props.minQueryLength]
            ELSE instance
        users == IF props.type = "users"
                 THEN SetField(external, "initial_users", props.initialUsers)
                 ELSE external
        channels == IF props.type = "channels"
                    THEN SetField(users, "initial_channels", props.initialChannels)
                    ELSE users
        conversations ==
            IF props.type = "conversations"
            THEN LET c == SetField(channels, "initial_conversations",
                                   props.initialConversations)
                 IN IF props.filter # NoValue
                    THEN SetField(c, "filter", Filter(props.filter)) ELSE c
            ELSE channels
    IN conversations

\* optionsOrGroups and initialOptions are both the outcome of reconciling a
\* Section built from props.children: the rule never reads props.initialOptions
MultiSelectMenu(props, confirm, placeholder, optionsOrGroups, initialOptions, collected) ==
    LET calls == <<confirm, placeholder, optionsOrGroups, initialOptions>>
        instance == [type |-> "multi_" \o props.type \o "_select",
                     action_id |-> props.action,
                     max_selected_items |-> props.maxSelectedItems,
                     onSearchOptions |-> props.onSearchOptions]
    IN IF Failed(calls) THEN FirstFailure(calls)
       ELSE LET static == props.type = "static"
                            /\ "fields" \in DOMAIN optionsOrGroups.value
                            /\ optionsOrGroups.value.fields # <<>>
                options == IF static THEN Flatten(optionsOrGroups.value.fields)
                           ELSE [ok |-> TRUE, value |-> <<>>]
                selectedOptions == IF options.ok THEN SelectedOptions(options.value)
                                   ELSE options
            IN IF ~selectedOptions.ok THEN selectedOptions
               ELSE Returned(
                      MultiSelectMenuVariant(
                          IF static
                          THEN SetField(instance, "initial_options", selectedOptions.value)
                          ELSE instance,
                          props, initialOptions.value)
                        @@ [confirm |-> confirm.value,
                            placeholder |-> PlainText(placeholder.value)],
                      Push(collected, <<confirm.promises, placeholder.promises,
                                        optionsOrGroups.promises, initialOptions.promises>>),
                      <<confirm.promises, placeholder.promises,
                        optionsOrGroups.promises, initialOptions.promises>>)

Home(props, title, collected) ==
       IF ~title.ok THEN title
       ELSE Returned([type |-> "home", blocks |-> <<>>,
                      title |-> PlainText(title.value)],
                     Push(collected, <<title.promises>>),
                     <<title.promises>>)

(***************************************************************************)
(* The reconciler.                                                         *)
(***************************************************************************)
\* createInstance: the element's own rule, called with the root's promises;
\* each reconcile call of the rule is a nested pass
Convert(element, collected) ==
    CASE element.kind = "text" ->
            Returned(Text(TextDefaultProps(element)), collected, <<>>)
      [] element.kind = "button" ->
            Button(element, Reconcile(element.confirm), collected)
      [] element.kind = "section" ->
            Section(element, Reconcile(element.accessory), Reconcile(element.text),
                    collected)
      [] element.kind = "actions" -> Returned(Actions(element), collected, <<>>)
      [] element.kind = "image" -> Returned(Image(element), collected, <<>>)
      [] element.kind = "image-block" -> Returned(ImageBlock(element), collected, <<>>)
      [] element.kind = "divider" -> Returned(Divider, collected, <<>>)
      [] element.kind = "context" -> Returned(Context(element), collected, <<>>)
      [] element.kind = "confirm" ->
            Confirm(element, Reconcile(element.title), Reconcile(element.confirm),
                    Reconcile(element.deny), collected)
      [] element.kind = "option" ->
            Option(element, Reconcile(element.description), collected)
      [] element.kind = "datepicker" ->
            DatePicker(element, Reconcile(element.placeholder),
                       Reconcile(element.confirm), collected)
      [] element.kind = "message" -> Returned(Message(element), collected, <<>>)
      [] element.kind = "modal" ->
            Modal(element, Reconcile(element.title), Reconcile(element.submit),
                  Reconcile(element.close), collected)
      [] element.kind = "input" ->
            Input(element, Reconcile(element.hint), Reconcile(element.label), collected)
      [] element.kind = "text-field" ->
            TextField(element, Reconcile(element.placeholder), collected)
      [] element.kind = "checkboxes" ->
            Checkboxes(element, Reconcile(SectionOf(element.children)),
                       Reconcile(element.confirm), collected)
      [] element.kind = "overflow" ->
            OverflowMenu(element, Reconcile(element.confirm), collected)
      [] element.kind = "radio-buttons" ->
            RadioButtons(element, Reconcile(SectionOf(element.children)),
                         Reconcile(element.confirm), collected)
      [] element.kind = "option-group" ->
            OptionGroup(element, Reconcile(element.label), collected)
      [] element.kind = "select-menu" ->
            SelectMenu(SelectMenuDefaultProps(element), Reconcile(element.confirm),
                       Reconcile(element.placeholder),
                       Reconcile(SectionOf(element.children)),
                       Reconcile(element.initialOption), collected)
      [] element.kind = "multi-select-menu" ->
            MultiSelectMenu(SelectMenuDefaultProps(element), Reconcile(element.confirm),
                            Reconcile(element.placeholder),
                            Reconcile(SectionOf(element.children)),
                            Reconcile(SectionOf(element.children)), collected)
      [] element.kind = "home" -> Home(element, Reconcile(element.title), collected)

\* an implicit text leaf for a bare string
TextInstance(element) == [type |-> "text", text |-> element.text]

\* the resolved child attached to its parent's instance, by the parent's shape
AppendChild(parent, child) ==
    IF child = NoValue THEN parent
    ELSE IF "blocks" \in DOMAIN parent
    THEN [parent EXCEPT !.blocks = Append(@, child)]
    ELSE IF "elements" \in DOMAIN parent
    THEN [parent EXCEPT !.elements = Append(@, child)]
    ELSE IF "isOptionGroup" \in DOMAIN parent
            \/ ("type" \in DOMAIN parent
                /\ parent.type \in {"checkboxes", "radio_buttons", "overflow"})
    THEN [parent EXCEPT !.options = Append(@, child)]
    ELSE IF "isConfirm" \in DOMAIN parent \/ "isOption" \in DOMAIN parent
    THEN SetField(parent, "text", child)
    ELSE IF parent.type = "section"
    THEN SetField(parent, "fields", Items(parent, "fields") \o <<child>>)
    ELSE IF parent.type = "input"
    THEN SetField(parent, "element", child)
    ELSE IF parent.type = "button"
    THEN [parent EXCEPT !.text.text = @ \o child.text]
    ELSE IF parent.type \in {"plain_text", "mrkdwn"}
    THEN [parent EXCEPT !.text = @ \o child.text]
    ELSE IF parent.type \in {"static_select", "multi_static_select"}
    THEN IF "isOptionGroup" \in DOMAIN child
         THEN SetField(parent, "option_groups",
                       Items(parent, "option_groups") \o <<child>>)
         ELSE SetField(parent, "options", Items(parent, "options") \o <<child>>)
    ELSE parent

\* an exception that leaves the root's promises array as it was when thrown
ThrownWith(error, collected) == [ok |-> FALSE, error |-> error, promises |-> collected]

RECURSIVE AppendChildren(_, _, _)

\* the next child, converted as "child", attached and the rest appended after it
AppendNext(parent, child, rest, calls) ==
    IF ~child.ok THEN child
    ELSE AppendChildren(Returned(AppendChild(parent, child.value), child.promises, calls),
                        rest, calls)

\* the children converted in order under the same root and attached
AppendChildren(own, children, calls) ==
    IF children = <<>> THEN own
    ELSE AppendNext(own.value, ConvertTree(Head(children), own.promises),
                    Tail(children), calls)

\* the element's children attached to the outcome of its own rule
Complete(element, collected, own) ==
    IF ~own.ok THEN ThrownWith(own.error, collected)
    ELSE AppendChildren(own, element.children, own.calls)

\* one element resolved under a root: undefined resolves to undefined, a bare
\* string to a text leaf, an element to its rule's instance with the element's
\* own pending resolutions recorded first and its children attached after
ConvertTree(element, collected) ==
    IF element = NoValue THEN Returned(NoValue, collected, <<>>)
    ELSE IF element.kind = "string"
    THEN Returned(TextInstance(element), collected, <<>>)
    ELSE Complete(element, collected \o element.pending,
                  Convert(element, collected \o element.pending))

(***************************************************************************)
(* The interaction registry: action identifier -> callback.                *)
(***************************************************************************)
\* the callback prop of an interactive element
Callback(element) ==
    IF "onClick" \in DOMAIN element THEN element.onClick
    ELSE IF "onSelect" \in DOMAIN element THEN element.onSelect
    ELSE Undefined

\* the props an element's rule passes to reconcile, in call order
ReconciledProps(element) ==
    CASE element.kind \in {"button", "overflow", "checkboxes", "radio-buttons"} ->
            <<element.confirm>>
      [] element.kind = "section" -> <<element.accessory, element.text>>
      [] element.kind = "confirm" -> <<element.title, element.confirm, element.deny>>
      [] element.kind = "option" -> <<element.description>>
      [] element.kind = "datepicker" -> <<element.placeholder, element.confirm>>
      [] element.kind = "modal" -> <<element.title, element.submit, element.close>>
      [] element.kind = "input" -> <<element.hint, element.label>>
      [] element.kind = "text-field" -> <<element.placeholder>>
      [] element.kind = "option-group" -> <<element.label>>
      [] element.kind = "select-menu" ->
            <<element.confirm, element.placeholder, element.initialOption>>
      [] element.kind = "multi-select-menu" -> <<element.confirm, element.placeholder>>
      [] element.kind = "home" -> <<element.title>>
      [] OTHER -> <<>>

RECURSIVE Registrations(_)
RECURSIVE RegistrationsOfAll(_)
\* the <<action, callback>> pairs of the interactive elements of a tree that
\* carry a callback, in traversal order
Registrations(element) ==
    IF element = NoValue \/ element.kind = "string" THEN <<>>
    ELSE (IF Callback(element) # Undefined
          THEN <<<<element.action, Callback(element)>>>> ELSE <<>>)
         \o RegistrationsOfAll(ReconciledProps(element))
         \o RegistrationsOfAll(element.children)

RegistrationsOfAll(elements) ==
    IF elements = <<>> THEN <<>>
    ELSE Registrations(Head(elements)) \o RegistrationsOfAll(Tail(elements))

\* a mutation of Register: the last write wins
RegisterOverwrite(entries, action, callback) ==
    [ok |-> TRUE,
     entries |-> [a \in DOMAIN entries \cup {action} |->
                     IF a = action THEN callback ELSE entries[a]]]

\* one entry added; a second entry for an action identifier is a collision
Register(entries, action, callback) ==
    IF action \in DOMAIN entries
    THEN [ok |-> FALSE, entries |-> entries]
    ELSE [ok |-> TRUE, entries |-> entries @@ (action :> callback)]

RECURSIVE RegisterAll(_, _)

RegisterRest(first, rest) ==
    IF ~first.ok THEN first ELSE RegisterAll(first.entries, rest)

RegisterAll(entries, registrations) ==
    IF registrations = <<>> THEN [ok |-> TRUE, entries |-> entries]
    ELSE RegisterRest(Register(entries, Head(registrations)[1], Head(registrations)[2]),
                      Tail(registrations))

(***************************************************************************)
(* The elements the model resolves.                                        *)
(***************************************************************************)
\* the sequences over S of length at most n
ListsUpTo(S, n) == UNION {[1..k -> S] : k \in 0..n}

OptionalBooleans == {Undefined, "true", "false"}

NewText(type, content, n) ==
    [Element("text") EXCEPT !.children = <<Str(content)>>,
                            !.pending = Pending(content, n)]
      @@ [type |-> type, emoji |-> Undefined, verbatim |-> Undefined]

\* the values of a text-bearing prop: absent, a bare string, a Text of either type
TextArgs(tag) ==
    {NoValue, Str(tag)}
      \cup {NewText(type, tag, n) : type \in {"plain_text", "mrkdwn"}, n \in 0..MaxPending}

NewConfirm(title, confirm, deny) ==
    [Element("confirm") EXCEPT !.children = <<Str("sure?")>>]
      @@ [style |-> Undefined, title |-> title, confirm |-> confirm, deny |-> deny]

\* the values of a confirm prop
ConfirmArgs ==
    {NoValue}
      \cup {NewConfirm(Str("title"), Str("yes"), NewText("mrkdwn", "no", n)) :
               n \in 0..MaxPending}

NewButton(action, onClick, children, confirm, look) ==
    [Element("button") EXCEPT !.children = children]
      @@ [action |-> action, onClick |-> onClick, confirm |-> confirm,
          style |-> look[1], url |-> look[2], emoji |-> look[3]]

Plain == <<Undefined, Undefined, Undefined>>

NewSection(accessory, text, children) ==
    [Element("section") EXCEPT !.children = children]
      @@ [accessory |-> accessory, text |-> text]

NewOption(value, selected, url, description) ==
    [Element("option") EXCEPT !.children = <<Str("option")>>]
      @@ [value |-> value, selected |-> selected, url |-> url,
          description |-> description]

NewOptionGroup(label, children) ==
    [Element("option-group") EXCEPT !.children = children] @@ [label |-> label]

\* the options of the children lists: two values, the first with a url and
\* selected given, the second without a url and selected given or left out
OptionSet ==
    {NewOption("a", selected, "http://a", NoValue) : selected \in {"true", "false"}}
      \cup {NewOption("b", selected, Undefined, NoValue) : selected \in {"true", Undefined}}

RECURSIVE Splits(_, _)
\* the ways to cut a list of options into k consecutive groups
Splits(options, k) ==
    IF k = 1 THEN {<<NewOptionGroup(Str("group"), options)>>}
    ELSE UNION {
           {<<NewOptionGroup(Str("group"), SubSeq(options, 1, c))>> \o rest :
               rest \in Splits(SubSeq(options, c + 1, Len(options)), k - 1)} :
           c \in 0..Len(options)}

FlatLists == ListsUpTo(OptionSet, MaxOptions)

GroupLists == UNION {Splits(options, k) : options \in FlatLists, k \in 1..MaxGroups}

\* a group and an option side by side
MixedLists ==
    UNION {{<<NewOptionGroup(Str("group"), <<o1>>), o2>>,
            <<o2, NewOptionGroup(Str("group"), <<o1>>)>>} :
             o1 \in OptionSet, o2 \in OptionSet}

\* an option whose description carries pending resolutions
PendingLists ==
    {<<NewOption("a", "true", Undefined, NewText("mrkdwn", "description", n))>> :
        n \in 1..MaxPending}

ChildLists == FlatLists \cup GroupLists \cup MixedLists \cup PendingLists

TextRoots ==
    {[NewText(type, "hello", 0) EXCEPT !.emoji = emoji, !.verbatim = verbatim] :
        type \in {Undefined, "plain_text", "mrkdwn"},
        emoji \in OptionalBooleans, verbatim \in OptionalBooleans}

ButtonRoots ==
    {NewButton(action, onClick, children, confirm, look) :
        action \in {Undefined, "go"}, onClick \in {Undefined, "onGo"},
        children \in {<<>>, <<Str("Go")>>}, confirm \in ConfirmArgs,
        look \in {Plain, <<"primary", "http://x", "true">>}}

SectionRoots ==
    {NewSection(accessory, text, children) :
        accessory \in {NoValue}
                        \cup {NewButton("go", "onGo", <<Str("Go")>>, confirm, Plain) :
                                 confirm \in ConfirmArgs},
        text \in TextArgs("text"),
        children \in {<<>>, <<NewText("mrkdwn", "field", MaxPending)>>}}

\* the buttons of an Actions block: two action identifiers, two callbacks or none
ButtonSet ==
    {NewButton(action, onClick, <<Str("Go")>>, NoValue, Plain) :
        action \in {"dup", "go"}, onClick \in {Undefined, "onFirst", "onSecond"}}

ActionsRoots ==
    {[Element("actions") EXCEPT !.children = children] :
        children \in ListsUpTo(ButtonSet, MaxButtons)}

ImageRoots == {Element("image") @@ [imageUrl |-> "http://i", alt |-> "alt"]}

ImageBlockRoots ==
    {Element("image-block") @@ [imageUrl |-> "http://i", alt |-> "alt",
                                title |-> title, emoji |-> emoji] :
        title \in {Undefined, "", "title"}, emoji \in OptionalBooleans}

DividerRoots == {Element("divider")}

ContextRoots ==
    {[Element("context") EXCEPT !.children = children] :
        children \in ListsUpTo({NewText("mrkdwn", "note", MaxPending)} \cup ImageRoots, 2)}

ConfirmRoots ==
    {NewConfirm(title, confirm, deny) :
        title \in TextArgs("title"), confirm \in TextArgs("confirm"),
        deny \in TextArgs("deny")}

OptionRoots ==
    {NewOption(value, selected, url, description) :
        value \in {Undefined, "a"}, selected \in OptionalBooleans,
        url \in {Undefined, "http://a"}, description \in TextArgs("description")}

DatePickerRoots ==
    {Element("datepicker") @@ [action |-> "date", initialDate |-> initialDate,
                               onSelect |-> Undefined, placeholder |-> placeholder,
                               confirm |-> confirm] :
        initialDate \in {Undefined, "2020-01-01"},
        placeholder \in TextArgs("placeholder"), confirm \in ConfirmArgs}

\* the blocks of a Message: a section with a button accessory, an actions block
BlockSet ==
    {NewSection(NewButton(action, "onAccessory", <<Str("Go")>>, NoValue, Plain),
                Str("text"), <<>>) : action \in {"dup", "go"}}
      \cup {[Element("actions") EXCEPT !.children =
                <<NewButton("dup", "onFirst", <<Str("Go")>>, NoValue, Plain)>>]}
      \cup {NoValue, Element("divider")}

MessageRoots ==
    {[Element("message") EXCEPT !.children = children] @@ [text |-> text] :
        text \in {Undefined, "hi"}, children \in ListsUpTo(BlockSet, 2)}

ModalRoots ==
    {[Element("modal") EXCEPT !.children = children]
       @@ [title |-> title, submit |-> submit, close |-> close] :
        title \in TextArgs("title"), submit \in TextArgs("submit"),
        close \in TextArgs("close"), children \in {<<>>, <<Element("divider")>>}}

NewTextField(placeholder) ==
    Element("text-field") @@ [action |-> "field", initialValue |-> Undefined,
                              maxLength |-> Undefined, minLength |-> Undefined,
                              multiline |-> Undefined, placeholder |-> placeholder]

InputRoots ==
    {[Element("input") EXCEPT !.children = children]
       @@ [label |-> label, hint |-> hint, optional |-> Undefined] :
        label \in TextArgs("label"), hint \in TextArgs("hint"),
        children \in {<<>>, <<NewTextField(NewText("mrkdwn", "placeholder", MaxPending))>>}}

TextFieldRoots == {NewTextField(placeholder) : placeholder \in TextArgs("placeholder")}

\* children and confirm of Checkboxes, OverflowMenu and RadioButtons
NewChoice(kind, children, confirm) ==
    [Element(kind) EXCEPT !.children = children]
      @@ [action |-> "choice", onSelect |-> Undefined, confirm |-> confirm]

ChoiceRoots(kind) ==
    {NewChoice(kind, children, NoValue) : children \in ChildLists}
      \cup {NewChoice(kind, children, confirm) :
               children \in PendingLists \cup {<<>>}, confirm \in ConfirmArgs}

CheckboxesRoots == ChoiceRoots("checkboxes")

OverflowMenuRoots ==
    {NewChoice("overflow", children, confirm) :
        children \in ListsUpTo(OptionSet, 1), confirm \in ConfirmArgs}

RadioButtonsRoots == ChoiceRoots("radio-buttons")

OptionGroupRoots ==
    {NewOptionGroup(label, children) :
        label \in TextArgs("label"), children \in ListsUpTo(OptionSet, 1)}

HomeRoots ==
    {[Element("home") EXCEPT !.children = children] @@ [title |-> title] :
        title \in TextArgs("title"),
        children \in {<<>>, <<NewSection(NoValue, NewText("mrkdwn", "text", MaxPending), <<>>)>>}}

\* the props of a menu that are copied through: none given, or all given
NoExtras ==
    [onSelect |-> Undefined, onSearchOptions |-> Undefined,
     minQueryLength |-> Undefined, maxSelectedItems |-> Undefined,
     initialUser |-> Undefined, initialChannel |-> Undefined,
     initialConversation |-> Undefined, initialUsers |-> Undefined,
     initialChannels |-> Undefined, initialConversations |-> Undefined,
     filter |-> NoValue]

AllExtras ==
    [onSelect |-> Undefined, onSearchOptions |-> "onSearch",
     minQueryLength |-> "3", maxSelectedItems |-> "2",
     initialUser |-> "U1", initialChannel |-> "C1",
     initialConversation |-> "D1", initialUsers |-> "[U1,U2]",
     initialChannels |-> "[C1,C2]", initialConversations |-> "[D1,D2]",
     filter |-> [include |-> "[im]", excludeExternalSharedChannels |-> "true",
                 excludeBotUsers |-> Undefined]]

MenuTypes == {Undefined, "static", "users", "channels", "external", "conversations"}

NewMenu(kind, type, confirm, placeholder, children, extras) ==
    [Element(kind) EXCEPT !.children = children]
      @@ [type |-> type, action |-> "menu", confirm |-> confirm,
          placeholder |-> placeholder] @@ extras

\* the values of SelectMenu's initialOption prop
InitialOptions ==
    {NoValue}
      \cup {NewOption("a", selected, "http://a", NoValue) : selected \in OptionalBooleans}
      \cup {NewOption("b", Undefined, Undefined, NewText("mrkdwn", "initial", n)) :
               n \in 0..MaxPending}

\* the static menus over every children list, and every type of menu over
\* every value of the props the rule reconciles
MenuRoots(kind) ==
    {NewMenu(kind, "static", NoValue, Str("placeholder"), children, NoExtras) :
        children \in ChildLists}
      \cup {NewMenu(kind, type, confirm, placeholder, children, extras) :
               type \in MenuTypes, confirm \in ConfirmArgs,
               placeholder \in TextArgs("placeholder"),
               children \in PendingLists \cup {<<>>},
               extras \in {NoExtras, AllExtras}}

SelectMenuRoots ==
    {menu @@ [initialOption |-> NoValue] : menu \in MenuRoots("select-menu")}
      \cup {NewMenu("select-menu", "external", NoValue, Str("placeholder"),
                    children, extras) @@ [initialOption |-> initialOption] :
               children \in PendingLists \cup {<<>>},
               extras \in {NoExtras, AllExtras},
               initialOption \in InitialOptions}

MultiSelectMenuRoots ==
    {menu @@ [initialOptions |-> <<>>] : menu \in MenuRoots("multi-select-menu")}
      \cup {NewMenu("multi-select-menu", "external", NoValue, Str("placeholder"),
                    children, extras) @@ [initialOptions |-> initialOptions] :
               children \in ListsUpTo(OptionSet, 1) \cup PendingLists,
               extras \in {NoExtras, AllExtras},
               initialOptions \in ListsUpTo(OptionSet, MaxOptions)}

Roots ==
    TextRoots \cup ButtonRoots \cup SectionRoots \cup ActionsRoots \cup ImageRoots
      \cup ImageBlockRoots \cup DividerRoots \cup ContextRoots \cup ConfirmRoots
      \cup OptionRoots \cup DatePickerRoots \cup MessageRoots \cup ModalRoots
      \cup InputRoots \cup TextFieldRoots \cup CheckboxesRoots \cup OverflowMenuRoots
      \cup RadioButtonsRoots \cup OptionGroupRoots \cup SelectMenuRoots
      \cup MultiSelectMenuRoots \cup HomeRoots

\* no entry, and an entry left by an earlier render
NoEntries == << >>

EarlierEntries == ("dup" :> "onEarlier")

(***************************************************************************)
(* The state machine: one root element is resolved in one render pass.     *)
(*   node     the root element                                             *)
(*   pc       "ready", then "done" (a document was returned) or "failed"   *)
(*   rule     the outcome of the root's own rule                           *)
(*   result   the outcome of the pass                                      *)
(*   promises the root's promises array                                    *)
(*   registry the interaction registry                                     *)
(***************************************************************************)
Init ==
    /\ node \in Roots
    /\ pc = "ready"
    /\ rule = NoValue
    /\ result = NoValue
    /\ promises = <<>>
    /\ registry \in IF node.kind \in {"actions", "message"}
                    THEN {NoEntries, EarlierEntries} ELSE {NoEntries}

\* the end of the pass: the document or the exception, the promises array
\* and the registry as the pass leaves them
Finish(own, tree, entries) ==
    /\ rule' = own
    /\ result' = IF ~tree.ok THEN Thrown(tree.error)
                 ELSE IF ~entries.ok THEN Thrown("CollisionError")
                 ELSE [ok |-> TRUE, value |-> tree.value]
    /\ promises' = tree.promises
    /\ registry' = IF tree.ok THEN entries.entries ELSE registry
    /\ pc' = IF tree.ok /\ entries.ok THEN "done" ELSE "failed"
    /\ UNCHANGED node

\* the pass over the root whose own rule ended as "own": the children are
\* converted and attached, the interactive elements registered
Resolve(own) ==
    Finish(own, Complete(node, promises \o node.pending, own),
           RegisterAll(registry, Registrations(node)))

Ready(kind) == pc = "ready" /\ node.kind = kind

\* the promises array when the root's rule is called
AtRule == promises \o node.pending

ConvertText ==
    /\ Ready("text")
    /\ Resolve(Returned(Text(TextDefaultProps(node)), AtRule, <<>>))

ConvertButton ==
    /\ Ready("button")
    /\ Resolve(Button(node, Reconcile(node.confirm), AtRule))

ConvertSection ==
    /\ Ready("section")
    /\ Resolve(Section(node, Reconcile(node.accessory), Reconcile(node.text), AtRule))

ConvertActions ==
    /\ Ready("actions")
    /\ Resolve(Returned(Actions(node), AtRule, <<>>))

ConvertImage ==
    /\ Ready("image")
    /\ Resolve(Returned(Image(node), AtRule, <<>>))

ConvertImageBlock ==
    /\ Ready("image-block")
    /\ Resolve(Returned(ImageBlock(node), AtRule, <<>>))

ConvertDivider ==
    /\ Ready("divider")
    /\ Resolve(Returned(Divider, AtRule, <<>>))

ConvertContext ==
    /\ Ready("context")
    /\ Resolve(Returned(Context(node), AtRule, <<>>))

ConvertConfirm ==
    /\ Ready("confirm")
    /\ Resolve(Confirm(node,
                       Reconcile(node.title),
                       Reconcile(node.confirm),
                       Reconcile(node.deny),
                       AtRule))

ConvertOption ==
    /\ Ready("option")
    /\ Resolve(Option(node, Reconcile(node.description), AtRule))

ConvertDatePicker ==
    /\ Ready("datepicker")
    /\ Resolve(DatePicker(node,
                          Reconcile(node.placeholder),
                          Reconcile(node.confirm),
                          AtRule))

ConvertMessage ==
    /\ Ready("message")
    /\ Resolve(Returned(Message(node), AtRule, <<>>))

ConvertModal ==
    /\ Ready("modal")
    /\ Resolve(Modal(node,
                     Reconcile(node.title),
                     Reconcile(node.submit),
                     Reconcile(node.close),
                     AtRule))

ConvertInput ==
    /\ Ready("input")
    /\ Resolve(Input(node, Reconcile(node.hint), Reconcile(node.label), AtRule))

ConvertTextField ==
    /\ Ready("text-field")
    /\ Resolve(TextField(node, Reconcile(node.placeholder), AtRule))

ConvertCheckboxes ==
    /\ Ready("checkboxes")
    /\ Resolve(Checkboxes(node,
                          Reconcile(SectionOf(node.children)),
                          Reconcile(node.confirm),
                          AtRule))

ConvertOverflowMenu ==
    /\ Ready("overflow")
    /\ Resolve(OverflowMenu(node, Reconcile(node.confirm), AtRule))

ConvertRadioButtons ==
    /\ Ready("radio-buttons")
    /\ Resolve(RadioButtons(node,
                            Reconcile(SectionOf(node.children)),
                            Reconcile(node.confirm),
                            AtRule))

ConvertOptionGroup ==
    /\ Ready("option-group")
    /\ Resolve(OptionGroup(node, Reconcile(node.label), AtRule))

ConvertSelectMenu ==
    /\ Ready("select-menu")
    /\ Resolve(SelectMenu(SelectMenuDefaultProps(node),
                          Reconcile(node.confirm),
                          Reconcile(node.placeholder),
                          Reconcile(SectionOf(node.children)),
                          Reconcile(node.initialOption),
                          AtRule))

ConvertMultiSelectMenu ==
    /\ Ready("multi-select-menu")
    /\ Resolve(MultiSelectMenu(SelectMenuDefaultProps(node),
                               Reconcile(node.confirm),
                               Reconcile(node.placeholder),
                               Reconcile(SectionOf(node.children)),
                               Reconcile(SectionOf(node.children)),
                               AtRule))

ConvertHome ==
    /\ Ready("home")
    /\ Resolve(Home(node, Reconcile(node.title), AtRule))

Next ==
    \/ ConvertText
    \/ ConvertButton
    \/ ConvertSection
    \/ ConvertActions
    \/ ConvertImage
    \/ ConvertImageBlock
    \/ ConvertDivider
    \/ ConvertContext
    \/ ConvertConfirm
    \/ ConvertOption
    \/ ConvertDatePicker
    \/ ConvertMessage
    \/ ConvertModal
    \/ ConvertInput
    \/ ConvertTextField
    \/ ConvertCheckboxes
    \/ ConvertOverflowMenu
    \/ ConvertRadioButtons
    \/ ConvertOptionGroup
    \/ ConvertSelectMenu
    \/ ConvertMultiSelectMenu
    \/ ConvertHome

Spec == Init /\ [][Next]_vars

(***************************************************************************)
(* What the properties below read of the elements and of the outcomes.     *)
(***************************************************************************)
\* the pass over the root has run
Ran == pc # "ready"

\* the root's rule returned an instance
RuleReturned == Ran /\ rule.ok

Kind(element) == IF "kind" \in DOMAIN element THEN element.kind ELSE "undefined"

\* the element is a Text declared with the given type
IsTextOf(element, type) == Kind(element) = "text" /\ element.type = type

\* the instance an element resolves to on its own
Resolved(element) == Reconcile(element).value

AllOfKind(children, kind) == \A i \in DOMAIN children : Kind(children[i]) = kind

\* the children are Options only, or OptionGroups only
Homogeneous(children) ==
    AllOfKind(children, "option") \/ AllOfKind(children, "option-group")

RECURSIVE DeclaredInGroups(_)
\* the Option elements of a list of OptionGroup elements, in declaration order
DeclaredInGroups(groups) ==
    IF groups = <<>> THEN <<>>
    ELSE Head(groups).children \o DeclaredInGroups(Tail(groups))

\* the Option elements of a children list, in declaration order
DeclaredOptions(children) ==
    IF children # <<>> /\ AllOfKind(children, "option-group")
    THEN DeclaredInGroups(children) ELSE children

\* the Option elements marked selected
DeclaredSelected(options) ==
    SelectSeq(options, LAMBDA option : option.selected = "true")

\* the instances of a list of elements, each with its url cleared
ResolvedUrlCleared(elements) ==
    [i \in DOMAIN elements |-> ClearUrl(Resolved(elements[i]))]

ResolvedAll(elements) == [i \in DOMAIN elements |-> Resolved(elements[i])]

IsStaticMenu(element, kind) ==
    element.kind = kind /\ element.type \in {"static", Undefined}

(***************************************************************************)
(* C1. Text-bearing props come out as plain_text.                          *)
(***************************************************************************)
\* the text-bearing props a rule resolves, by the element's kind
TextBearing(kind) ==
    CASE kind = "modal" -> {"title", "submit", "close"}
      [] kind = "input" -> {"label", "hint"}
      [] kind = "home" -> {"title"}
      [] kind = "confirm" -> {"title", "confirm", "deny"}
      [] kind \in {"datepicker", "text-field", "select-menu", "multi-select-menu"} ->
            {"placeholder"}
      [] kind = "option-group" -> {"label"}
      [] OTHER -> {}

\* a resolved Confirm carries plain_text title, confirm and deny
ConfirmIsPlainText(confirm) ==
    "isConfirm" \in DOMAIN confirm =>
        \A f \in {"title", "confirm", "deny"} : confirm[f].type = "plain_text"

\* C1: whenever a rule returns, every text-bearing prop (label, hint,
\* placeholder, title, submit, close, and a confirm dialog's title, confirm
\* and deny) that resolved to a value is in the output with type plain_text,
\* whether it was given as a bare string, a plain_text Text or a mrkdwn Text.
C1_TextBearingPropsArePlainText ==
    RuleReturned =>
        /\ \A f \in TextBearing(node.kind) :
              node[f] # NoValue =>
                  /\ rule.value[f] # NoValue
                  /\ rule.value[f].type = "plain_text"
        /\ (node.kind = "image-block" /\ node.title \notin {Undefined, ""}) =>
              rule.value.title.type = "plain_text"
        /\ ("confirm" \in DOMAIN rule.value /\ node.kind # "confirm") =>
              ConfirmIsPlainText(rule.value.confirm)

\* a Modal whose title was declared mrkdwn and whose close was a bare string
\* has returned both as plain_text
C1_Witness ==
    /\ RuleReturned
    /\ node.kind = "modal"
    /\ IsTextOf(node.title, "mrkdwn")
    /\ Kind(node.close) = "string"
    /\ rule.value.title.type = "plain_text"
    /\ rule.value.close.type = "plain_text"

(***************************************************************************)
(* C2. Which rules flatten OptionGroups.                                   *)
(***************************************************************************)
\* the children are OptionGroups, at least one
GroupChildren == node.children # <<>> /\ AllOfKind(node.children, "option-group")

\* the first declared option marked selected, as initial_option carries it
FirstDeclaredSelected(options) ==
    IF DeclaredSelected(options) = <<>> THEN NoValue
    ELSE ClearUrl(Resolved(DeclaredSelected(options)[1]))

\* C2 as stated: for Checkboxes, RadioButtons and a static SelectMenu whose
\* children are OptionGroups, selection is extracted from the concatenation of
\* every group's options, groups and options in declaration order.
C2_GroupsFlattenedEverywhere ==
    (Ran /\ GroupChildren) =>
        /\ node.kind = "checkboxes" =>
              /\ rule.ok
              /\ Items(rule.value, "initial_options")
                   = ResolvedUrlCleared(DeclaredSelected(DeclaredOptions(node.children)))
        /\ node.kind = "radio-buttons" =>
              /\ rule.ok
              /\ Get(rule.value, "initial_option")
                   = FirstDeclaredSelected(DeclaredOptions(node.children))
        /\ IsStaticMenu(node, "select-menu") =>
              /\ rule.ok
              /\ Get(rule.value, "initial_option")
                   = FirstDeclaredSelected(DeclaredOptions(node.children))

\* C2 amended: a static SelectMenu or MultiSelectMenu whose children are
\* OptionGroups extracts its selection from the concatenation of every group's
\* options (as many options as the groups hold together, groups in declaration
\* order, options in declaration order within a group); Checkboxes and
\* RadioButtons do not flatten, given OptionGroups they throw.
C2_StaticMenusFlattenGroups ==
    (Ran /\ GroupChildren) =>
        /\ (IsStaticMenu(node, "select-menu") \/ IsStaticMenu(node, "multi-select-menu")) =>
              /\ rule.ok
              /\ Flatten(Reconcile(SectionOf(node.children)).value.fields)
                   = [ok |-> TRUE, value |-> ResolvedAll(DeclaredOptions(node.children))]
        /\ IsStaticMenu(node, "select-menu") =>
              rule.value.initial_option
                = FirstDeclaredSelected(DeclaredOptions(node.children))
        /\ IsStaticMenu(node, "multi-select-menu") =>
              rule.value.initial_options
                = ResolvedUrlCleared(DeclaredSelected(DeclaredOptions(node.children)))
        /\ node.kind \in {"checkboxes", "radio-buttons"} =>
              ~rule.ok /\ rule.error = "TypeError"

\* a static SelectMenu of two groups, the only selected option in the second,
\* has returned that option as initial_option
C2_Witness ==
    /\ RuleReturned
    /\ IsStaticMenu(node, "select-menu")
    /\ Len(node.children) = 2
    /\ GroupChildren
    /\ Len(node.children[1].children) = 1
    /\ node.children[1].children[1].selected # "true"
    /\ Len(node.children[2].children) = 1
    /\ node.children[2].children[1].selected = "true"
    /\ rule.value.initial_option.value = node.children[2].children[1].value

(***************************************************************************)
(* C3. The first selected option wins.                                     *)
(***************************************************************************)
\* C3: RadioButtons over Options, and a static SelectMenu over Options or over
\* OptionGroups, return as initial_option the first option marked selected in
\* flattened order (with its url cleared), also when several are marked, and
\* undefined when none is marked.
C3_FirstSelectedIsInitialOption ==
    (Ran /\ \/ node.kind = "radio-buttons" /\ AllOfKind(node.children, "option")
            \/ IsStaticMenu(node, "select-menu") /\ Homogeneous(node.children)) =>
        /\ rule.ok
        /\ Get(rule.value, "initial_option")
             = FirstDeclaredSelected(DeclaredOptions(node.children))

\* RadioButtons over two options both marked selected have returned the first
C3_Witness ==
    /\ RuleReturned
    /\ node.kind = "radio-buttons"
    /\ Len(node.children) = 2
    /\ AllOfKind(node.children, "option")
    /\ node.children[1].selected = "true"
    /\ node.children[2].selected = "true"
    /\ node.children[1].value # node.children[2].value
    /\ rule.value.initial_option.value = node.children[1].value

(***************************************************************************)
(* C4. The selected options of a static MultiSelectMenu.                   *)
(***************************************************************************)
\* C4: a static MultiSelectMenu with non-empty children (Options only, or
\* OptionGroups only) returns as initial_options exactly the options marked
\* selected, each with its url cleared, in flattened order.
C4_InitialOptionsAreTheSelected ==
    (Ran /\ IsStaticMenu(node, "multi-select-menu")
         /\ node.children # <<>> /\ Homogeneous(node.children)) =>
        /\ rule.ok
        /\ "initial_options" \in DOMAIN rule.value
        /\ rule.value.initial_options
             = ResolvedUrlCleared(DeclaredSelected(DeclaredOptions(node.children)))

\* a static MultiSelectMenu over a selected option with a url and an option
\* not selected has returned the first alone, its url cleared
C4_Witness ==
    /\ RuleReturned
    /\ IsStaticMenu(node, "multi-select-menu")
    /\ Len(node.children) = 2
    /\ AllOfKind(node.children, "option")
    /\ node.children[1].selected = "true"
    /\ node.children[1].url # Undefined
    /\ node.children[2].selected # "true"
    /\ Len(rule.value.initial_options) = 1
    /\ rule.value.initial_options[1].value = node.children[1].value
    /\ rule.value.initial_options[1].url = Undefined

(***************************************************************************)
(* C5. The initial options of an external MultiSelectMenu.                 *)
(***************************************************************************)
\* C5: an external MultiSelectMenu returns as initial_options the resolved
\* initialOptions prop, whatever its children are.
C5_ExternalInitialOptionsFromProp ==
    (Ran /\ node.kind = "multi-select-menu" /\ node.type = "external") =>
        /\ rule.ok
        /\ Items(rule.value, "initial_options") = ResolvedAll(node.initialOptions)

\* an external MultiSelectMenu given a selected initialOptions entry and no
\* children
C5_FailingInput ==
    /\ Ran
    /\ node.kind = "multi-select-menu"
    /\ node.type = "external"
    /\ node.children = <<>>
    /\ node.initialOptions # <<>>

(***************************************************************************)
(* C6. The initial option of an external SelectMenu.                       *)
(***************************************************************************)
\* C6: an external SelectMenu with initialOption set and no children returns
\* as initial_option the resolved initialOption with its url cleared (the
\* resolved initialOption keeps the url it was given), and as min_query_length
\* the minQueryLength it was given, undefined when none was.
C6_ExternalInitialOptionUrlCleared ==
    (Ran /\ node.kind = "select-menu" /\ node.type = "external"
         /\ node.initialOption # NoValue /\ node.children = <<>>) =>
        /\ rule.ok
        /\ rule.value.initial_option = ClearUrl(Resolved(node.initialOption))
        /\ rule.value.initial_option.url = Undefined
        /\ Resolved(node.initialOption).url = node.initialOption.url
        /\ rule.value.min_query_length = node.minQueryLength

\* an external SelectMenu whose initialOption has a url, with minQueryLength
\* given, has returned the option without the url
C6_Witness ==
    /\ RuleReturned
    /\ node.kind = "select-menu"
    /\ node.type = "external"
    /\ node.children = <<>>
    /\ node.initialOption # NoValue
    /\ node.initialOption.url # Undefined
    /\ node.minQueryLength # Undefined
    /\ rule.value.initial_option.value = node.initialOption.value
    /\ rule.value.initial_option.url = Undefined
    /\ rule.value.min_query_length = node.minQueryLength

(***************************************************************************)
(* C7. Two registrations of one action identifier.                         *)
(***************************************************************************)
\* some action identifier is registered twice, or is in the registry already
Collides(entries, registrations) ==
    \/ \E i \in DOMAIN registrations : registrations[i][1] \in DOMAIN entries
    \/ \E i, j \in DOMAIN registrations :
          i < j /\ registrations[i][1] = registrations[j][1]

PendingOf(elements) ==
    Concat([i \in DOMAIN elements |-> Reconcile(elements[i]).promises])

\* the rules whose reconcile calls are all on props
ReconcilesPropsOnly(kind) ==
    kind \notin {"checkboxes", "radio-buttons", "select-menu", "multi-select-menu"}

\* C8: when a rule returns, the promises array holds, after what it held when
\* the rule was called, the pending resolutions of the rule's reconcile calls
\* in the order in which the rule made the calls.
C8_PendingInReconcileCallOrder ==
    RuleReturned =>
        /\ rule.promises = node.pending \o Concat(rule.calls)
        /\ ReconcilesPropsOnly(node.kind) =>
              rule.promises = node.pending \o PendingOf(ReconciledProps(node))

\* a rule has returned after two reconcile calls that each found a pending
\* resolution, and the two are in the array in call order
C8_Witness ==
    /\ RuleReturned
    /\ Len(rule.calls) >= 2
    /\ rule.calls[1] # <<>>
    /\ rule.calls[2] # <<>>
    /\ rule.calls[1] # rule.calls[2]
    /\ rule.promises = node.pending \o rule.calls[1] \o rule.calls[2]
                         \o Concat(SubSeq(rule.calls, 3, Len(rule.calls)))

(***************************************************************************)
(* C9. The type of a Section's text.                                       *)
(***************************************************************************)
\* C9 as stated: a Section's text given as a Text element is plain_text in
\* the output whatever type the Text declared.
C9_SectionTextAlwaysPlainText ==
    (Ran /\ node.kind = "section" /\ Kind(node.text) = "text") =>
        /\ rule.ok
        /\ rule.value.text.type = "plain_text"

\* C9 amended: a Section's text given as a bare string is plain_text in the
\* output; given as a Text element it keeps the type the Text declared, so a
\* Text declared mrkdwn stays mrkdwn.
C9_SectionTextCoercedFromBareString ==
    (Ran /\ node.kind = "section") =>
        /\ rule.ok
        /\ Kind(node.text) = "string" => rule.value.text.type = "plain_text"
        /\ Kind(node.text) = "text" =>
              /\ rule.value.text.type = TextDefaultProps(node.text).type
              /\ rule.value.text = Resolved(node.text)
        /\ node.text = NoValue => rule.value.text = NoValue

\* a Section whose text is a Text declared mrkdwn has returned it as mrkdwn
C9_Witness ==
    /\ RuleReturned
    /\ node.kind = "section"
    /\ IsTextOf(node.text, "mrkdwn")
    /\ rule.value.text.type = "mrkdwn"

(***************************************************************************)
(* C10. Required props that are absent.                                    *)
(***************************************************************************)
\* a Button without action or children, an Option without value
LacksRequired ==
    \/ node.kind = "button" /\ (node.action = Undefined \/ node.children = <<>>)
    \/ node.kind = "option" /\ node.value = Undefined

\* C10 as stated: converting a Button without action or children, or an
\* Option without value, ends in a ShapeError and returns no element.
C10_AbsentRequiredPropIsShapeError ==
    (Ran /\ LacksRequired) =>
        /\ pc = "failed"
        /\ result = Thrown("ShapeError")

\* C10 amended: the rules check no prop. A Button without action or children
\* and an Option without value are converted to an element that carries the
\* absent prop as undefined (action_id, value) or as an empty text, and no
\* conversion ends in a ShapeError.
C10_AbsentRequiredPropIsPassedThrough ==
    Ran =>
        /\ ~result.ok => result.error # "ShapeError"
        /\ node.kind = "button" =>
              /\ rule.ok /\ pc = "done"
              /\ result.value.action_id = node.action
              /\ node.children = <<>> => result.value.text.text = ""
        /\ node.kind = "option" =>
              /\ rule.ok /\ pc = "done"
              /\ result.value.value = node.value

\* a Button without action and without children has been converted to a
\* button element
C10_Witness ==
    /\ pc = "done"
    /\ node.kind = "button"
    /\ node.action = Undefined
    /\ node.children = <<>>
    /\ result.value.type = "button"
    /\ result.value.action_id = Undefined

(***************************************************************************)
(* C11. The type, verbatim and emoji of a Text.                            *)
(***************************************************************************)
\* the type a Text is converted with
DeclaredType(text) == IF text.type = Undefined THEN "plain_text" ELSE text.type

\* C11: a Text is converted with type plain_text when it declares none; its
\* output carries verbatim (the prop as given) exactly when the type is
\* mrkdwn and emoji (the prop as given) exactly when the type is plain_text,
\* so a verbatim prop on a plain_text Text and an emoji prop on a mrkdwn Text
\* do not reach the output.
C11_TextTypeDefaultAndFlags ==
    (Ran /\ node.kind = "text") =>
        /\ rule.ok /\ pc = "done"
        /\ result.value.type = DeclaredType(node)
        /\ "verbatim" \in DOMAIN result.value <=> DeclaredType(node) = "mrkdwn"
        /\ "emoji" \in DOMAIN result.value <=> DeclaredType(node) = "plain_text"
        /\ DeclaredType(node) = "mrkdwn" => result.value.verbatim = node.verbatim
        /\ DeclaredType(node) = "plain_text" => result.value.emoji = node.emoji

\* a Text declaring no type, given both verbatim and emoji, has been converted
\* to plain_text with its emoji and without verbatim
C11_Witness ==
    /\ pc = "done"
    /\ node.kind = "text"
    /\ node.type = Undefined
    /\ node.verbatim = "true"
    /\ node.emoji = "true"
    /\ result.value.type = "plain_text"
    /\ result.value.emoji = "true"
    /\ "verbatim" \notin DOMAIN result.value

(***************************************************************************)
(* C12. No pending resolution is lost.                                     *)
(***************************************************************************)
\* how many times p occurs in a sequence
Count(p, seq) == Cardinality({i \in DOMAIN seq : seq[i] = p})

\* every occurrence of a pending resolution in "found" is matched by one in
\* "held"
HoldsAll(held, found) ==
    \A i \in DOMAIN found : Count(found[i], held) >= Count(found[i], found)

\* the elements a rule passes to reconcile, in call order
RuleCalls(element) ==
    CASE element.kind \in {"checkboxes", "radio-buttons"} ->
            <<SectionOf(element.children), element.confirm>>
      [] element.kind = "select-menu" ->
            <<element.confirm, element.placeholder, SectionOf(element.children),
              element.initialOption>>
      [] element.kind = "multi-select-menu" ->
            <<element.confirm, element.placeholder, SectionOf(element.children),
              SectionOf(element.children)>>
      [] OTHER -> ReconciledProps(element)

RECURSIVE Discovered(_)
RECURSIVE DiscoveredInAll(_)
\* the pending resolutions of a tree, each element counted once: the
\* element's own, those of the props its rule reconciles, those of its children
Discovered(element) ==
    IF element = NoValue \/ element.kind = "string" THEN <<>>
    ELSE element.pending \o DiscoveredInAll(ReconciledProps(element))
                         \o DiscoveredInAll(element.children)

DiscoveredInAll(elements) ==
    IF elements = <<>> THEN <<>>
    ELSE Discovered(Head(elements)) \o DiscoveredInAll(Tail(elements))

\* C12: when a rule returns, the promises array holds what it held when the
\* rule was called and every pending resolution returned by every reconcile
\* call the rule made; when the conversion of a tree ends without an
\* exception, the array holds every pending resolution found anywhere in
\* the tree.
C12_NoPendingResolutionLost ==
    /\ RuleReturned =>
          /\ HoldsAll(rule.promises, node.pending \o Concat(rule.calls))
          /\ HoldsAll(rule.promises, node.pending \o PendingOf(RuleCalls(node)))
    /\ (Ran /\ Reconcile(node).ok) => HoldsAll(promises, Discovered(node))

\* a MultiSelectMenu whose placeholder and whose option's description each
\* carry a pending resolution has been converted, and the array holds both
C12_Witness ==
    /\ pc = "done"
    /\ node.kind = "multi-select-menu"
    /\ Kind(node.placeholder) = "text"
    /\ node.placeholder.pending # <<>>
    /\ Len(node.children) = 1
    /\ node.children[1].description # NoValue
    /\ Discovered(node.children[1]) # <<>>
    /\ Count(node.placeholder.pending[1], promises) >= 1
    /\ Count(Discovered(node.children[1])[1], promises) >= 1

====
